---------------------------- MODULE Spec2Model ----------------------------
(***************************************************************************)
(* A model of lackey request-handler (lib/index.js and lib/handlers).      *)
(*                                                                         *)
(* One behaviour is one request: the dispatcher builds a translator `o`    *)
(* and runs the route callback; the callback either calls one of the       *)
(* synchronous builders (select, getFilter), calls getBody, or sets up     *)
(* the documented promise chain, whose links then run one per turn.        *)
(*                                                                         *)
(* JavaScript strings are sequences of atoms: an atom is either one of     *)
(* the separator characters the code splits on (" ", ",", ":") or a piece  *)
(* of text holding none of them.  The absent value (undefined) and the     *)
(* empty string are both <<>>: the code only ever tests such values for    *)
(* truthiness.                                                             *)
(***************************************************************************)
EXTENDS Integers, Sequences, FiniteSets, TLC

VARIABLES
    pc,         \* where the request is: "idle", "chain", "io", "done"
    options,    \* self.options of the translator
    req,        \* self.req
    res,        \* self.res: status, headers and the responses written
    nextCalls,  \* calls of self.next
    logged,     \* calls of self.logger.error
    call,       \* the builder the route callback called, and its outcome
    chain,      \* the promise chain the route callback set up
    invoked,    \* the chain handlers invoked so far, in order
    body        \* getBody: the deferred, the pending read and the handler
                \* attached to the deferred

vars == <<pc, options, req, res, nextCalls, logged, call, chain, invoked, body>>

---------------------------------------------------------------------------
(* String.prototype.split, Array.prototype.join, indexOf and splice.       *)

RECURSIVE SplitFrom(_, _, _)
SplitFrom(s, sep, cur) ==
    IF s = <<>> THEN <<cur>>
    ELSE IF Head(s) = sep
         THEN <<cur>> \o SplitFrom(Tail(s), sep, <<>>)
         ELSE SplitFrom(Tail(s), sep, Append(cur, Head(s)))

split(s, sep) == SplitFrom(s, sep, <<>>)

RECURSIVE join(_, _)
join(list, sep) ==
    IF list = <<>> THEN <<>>
    ELSE IF Len(list) = 1 THEN list[1]
    ELSE list[1] \o <<sep>> \o join(Tail(list), sep)

\* 0 when x is not in the list (indexOf's -1), else its first position
indexOf(list, x) ==
    IF \E i \in 1..Len(list) : list[i] = x
    THEN CHOOSE i \in 1..Len(list) :
            list[i] = x /\ \A j \in 1..(i - 1) : list[j] # x
    ELSE 0

\* list.splice(i, 1)
splice(list, i) ==
    [j \in 1..(Len(list) - 1) |-> IF j < i THEN list[j] ELSE list[j + 1]]

---------------------------------------------------------------------------
(* Error values.  kind says what the value is: an object, or one of the    *)
(* falsy values a promise can be rejected with.  status 0 is "no status".  *)

Err(name, arg) == [kind |-> "object", name |-> name, status |-> 0, arg |-> arg]

NoErr == [kind |-> "undefined", name |-> "", status |-> 0, arg |-> <<>>]

\* a builder's outcome: it returned val, or threw err
Returned(v) == [threw |-> FALSE, err |-> NoErr, val |-> v]
Threw(e)    == [threw |-> TRUE, err |-> e, val |-> <<>>]


---------------------------------------------------------------------------
(* The response.  writes lists what was sent, in order: by is the function *)
(* of this library whose call sent it ("express" when the framework's own  *)
(* fallback answered), kind is what was sent.                              *)

Write(by, kind, how, status) ==
    [by |-> by, kind |-> kind, how |-> how, status |-> status]

\* statusCalls lists the arguments of the calls of res.status, in order
res0 == [status |-> 200, statusCalls |-> <<>>, contentType |-> "",
         writes |-> <<>>]

\* res.status(n)
setStatus(r, n) ==
    [r EXCEPT !.status = n, !.statusCalls = Append(@, n)]

\* res.render / res.json / res.send / res.redirect: one response is sent
send(r, by, kind, how) ==
    [r EXCEPT !.writes = Append(@, Write(by, kind, how, r.status))]

\* what a handler's call did: it returned ret or threw err, and left the
\* response, the logger and next in this state
Effect(threw, err, ret, r, nlog, nnext) ==
    [threw |-> threw, err |-> err, ret |-> ret, res |-> r,
     logged |-> nlog, next |-> nnext]

---------------------------------------------------------------------------
(* Values that travel down a promise chain: the data a store answered      *)
(* with, the error a link was rejected with, or handle404's fake promise.  *)

Truthy(d) == d \in {"doc", "list", "emptyList"}

DataVal(d) == [tag |-> "data", data |-> d, err |-> NoErr]
ErrVal(e)  == [tag |-> "err", data |-> "", err |-> e]

IsThenable(v) == v.tag = "thenable"

---------------------------------------------------------------------------
(* Content negotiation: res.format(obj) of the framework.  keys are obj's  *)
(* own keys but "default", in insertion order; the result is the key the   *)
(* request accepts, or "" when it accepts none of them.                    *)

accepts(keys, accept) ==
    IF accept = "*/*"
    THEN (IF keys = <<>> THEN "" ELSE keys[1])
    ELSE IF \E i \in 1..Len(keys) : keys[i] = accept THEN accept ELSE ""

\* obj[mediaType] = fn: a key assigned twice keeps its first place
setKey(keys, k) ==
    IF \E i \in 1..Len(keys) : keys[i] = k THEN keys ELSE Append(keys, k)

---------------------------------------------------------------------------
(* The output format registry (lib/handlers/index.js) and its handlers.    *)

XlsxType == "application/vnd.openxmlformats-officedocument.spreadsheetml.sheet"

\* Object.keys(handlers)
handlerTypes == <<"html", "json", "xlsx">>

\* handlers[type] is defined; type is the text before the token's first ":"
registered(type) ==
    Len(type) = 1 /\ \E i \in 1..Len(handlerTypes) : handlerTypes[i] = type[1]

mediaType(type) ==
    CASE type = "html" -> "text/html"
      [] type = "json" -> "application/json"
      [] type = "xlsx" -> XlsxType

typeOf(media) ==
    CASE media = "text/html" -> "html"
      [] media = "application/json" -> "json"
      [] media = XlsxType -> "xlsx"

\* new TypeError by the runtime: a call of something that is no function,
\* or a property read on undefined or null
NativeTypeError == Err("TypeError", <<>>)

\* opts.match(/redirect\(([^\)]+)\)/): the atoms between the first
\* "redirect(" and the next ")", when there is at least one; else <<>> with
\* matched FALSE
matchRedirect(opts) ==
    LET starts == {i \in 1..Len(opts) : opts[i] = "redirect("}
        hit(i) == \E j \in (i + 2)..Len(opts) :
                     /\ opts[j] = ")"
                     /\ \A k \in (i + 1)..(j - 1) : opts[k] # ")"
        ok == {i \in starts : hit(i)}
    IN  IF ok = {} THEN [matched |-> FALSE, url |-> <<>>]
        ELSE LET i == CHOOSE x \in ok : \A y \in ok : x <= y
                 j == CHOOSE x \in (i + 2)..Len(opts) :
                         /\ opts[x] = ")"
                         /\ \A k \in (i + 1)..(x - 1) : opts[k] # ")"
             IN  [matched |-> TRUE, url |-> SubSeq(opts, i + 1, j - 1)]

\* /^https?:\/\//.test(url)
isAbsoluteUrl(url) ==
    /\ Len(url) >= 3
    /\ url[1] \in {"http", "https"}
    /\ url[2] = ":"
    /\ url[3] \in {"//host"}

\* lib/handlers/html.js outputHandler's closure, run by res.format
htmlOutput(r, by, opts) ==
    LET m == matchRedirect(opts)
    IN  IF m.matched
        THEN IF ~isAbsoluteUrl(m.url)
             THEN Effect(TRUE, Err("URIError", <<>>), DataVal(""), r, 0, 0)
             ELSE Effect(FALSE, NoErr, DataVal(""),
                         send([r EXCEPT !.status = 302], by, "success", "redirect"),
                         0, 0)
        ELSE Effect(FALSE, NoErr, DataVal(""),
                    send(r, by, "success", "render"), 0, 0)

\* lib/handlers/html.js notFoundHandler's closure
htmlNotFound(r, by, opts) ==
    Effect(FALSE, NoErr, DataVal(""), send(r, by, "notFound", "render"), 0, 0)

\* lib/handlers/xlsx.js: both closures set the header and then call
\* converter.convertToXlsx, which the stub JsonXlsxConverter does not have
xlsxRender(r, by) ==
    Effect(TRUE, NativeTypeError, DataVal(""),
           [r EXCEPT !.contentType = XlsxType], 0, 0)

\* lib/handlers/json.js: sends the data, or the not-found record, as JSON
jsonRender(r, by, kind) ==
    Effect(FALSE, NoErr, DataVal(""), send(r, by, kind, "json"), 0, 0)

\* formatOpts['default']
notAcceptable(r, by) ==
    Effect(FALSE, NoErr, DataVal(""),
           send(setStatus(r, 406), by, "notAcceptable", "send"), 0, 0)

\* the closure res.format picks among formatOpts and runs; entries maps a
\* registry type to the opts its closure was built with
runFormat(r, by, mode, keys, entries, accept) ==
    LET key == accepts(keys, accept)
    IN  IF key = "" THEN notAcceptable(r, by)
        ELSE LET type == typeOf(key)
             IN  CASE type = "html" /\ mode = "output" ->
                        htmlOutput(r, by, entries[type])
                   [] type = "html" /\ mode = "notFound" ->
                        htmlNotFound(r, by, entries[type])
                   [] type = "json" ->
                        jsonRender(r, by,
                            IF mode = "output" THEN "success" ELSE "notFound")
                   [] type = "xlsx" -> xlsxRender(r, by)


---------------------------------------------------------------------------
(* Obj.prototype.handleError.                                              *)

statusByName(name) ==
    CASE name \in {"CastError", "ValidationError", "ArgumentError",
                   "ArgumentNullError", "RangeError", "TypeError"} -> 400
      [] name = "AuthenticationRequiredError" -> 401
      [] name = "NotPermittedError" -> 403
      [] name = "NotFoundError" -> 404
      [] name = "NotSupportedError" -> 415
      [] name \in {"MongoError", "AlreadyInUseError"} -> 409
      [] OTHER -> 500

\* a classifier that looks at the name alone, to compare errStatus with
statusOfNameOnly(err) == statusByName(err.name)

\* errObj.status once the switch has run
errStatus(err) ==
    IF err.status # 0 THEN err.status ELSE statusByName(err.name)

\* reading err.name throws when err is undefined or null
readThrows(err) == err.kind \in {"undefined", "null"}

\* the function handleError() returns, called with err
handleError(err, r, accept) ==
    IF readThrows(err)
    THEN Effect(TRUE, NativeTypeError, DataVal("undefined"), r, 0, 0)
    ELSE IF err.kind # "object"
    THEN Effect(FALSE, NoErr, DataVal("undefined"), r, 0, 0)
    ELSE LET r1 == setStatus(r, errStatus(err))
             key == accepts(<<"text/html", "application/json">>, accept)
             r2 == CASE key = "text/html" ->
                          send(r1, "handleError", "error", "render")
                     [] key = "application/json" ->
                          send(r1, "handleError", "error", "json")
                     [] OTHER ->
                          \* no default entry: res.format passes a 406 error
                          \* to the framework, which answers with it
                          send([r1 EXCEPT !.status = 406], "express",
                               "notAcceptable", "next")
         IN  Effect(FALSE, NoErr, DataVal("undefined"), r2, 1, 0)

---------------------------------------------------------------------------
(* Obj.prototype.handleOutput and Obj.prototype.handle404.                 *)

\* the tokens with those of no registered type left out, to compare tokens
\* with
tokensOfRegistered(selector, full) ==
    LET items == split(selector, " ")
        all == [i \in 1..Len(items) |->
                  LET props == split(items[i], ":")
                  IN  [type |-> props[1],
                       value |-> IF full THEN join(Tail(props), ":")
                                 ELSE IF Len(props) >= 2 THEN props[2]
                                 ELSE <<>>]]
    IN  SelectSeq(all, LAMBDA t : registered(t.type))

\* the token list of a selector: for each item its type and its opts.
\* full: respond's value (all that follows the first ":"); else handle404's
\* (what stands between the first and the second ":")
tokens(selector, full) ==
    LET items == split(selector, " ")
    IN  [i \in 1..Len(items) |->
            LET props == split(items[i], ":")
            IN  [type |-> props[1],
                 value |-> IF full THEN join(Tail(props), ":")
                           ELSE IF Len(props) >= 2 THEN props[2] ELSE <<>>]]

\* the first token whose type is not registered, 0 when all are
firstUnregistered(toks) ==
    IF \E i \in 1..Len(toks) : ~registered(toks[i].type)
    THEN CHOOSE i \in 1..Len(toks) :
            /\ ~registered(toks[i].type)
            /\ \A j \in 1..(i - 1) : registered(toks[j].type)
    ELSE 0

\* formatOpts' keys after the loop over the tokens
RECURSIVE formatKeys(_)
formatKeys(toks) ==
    IF toks = <<>> THEN <<>>
    ELSE setKey(formatKeys(SubSeq(toks, 1, Len(toks) - 1)),
                mediaType(toks[Len(toks)].type[1]))

\* the opts each registry type's closure holds: the last token of the type
formatEntries(toks) ==
    [t \in {"html", "json", "xlsx"} |->
        IF \E i \in 1..Len(toks) : toks[i].type = <<t>>
        THEN toks[CHOOSE i \in 1..Len(toks) :
                    /\ toks[i].type = <<t>>
                    /\ \A j \in (i + 1)..Len(toks) : toks[j].type # <<t>>].value
        ELSE <<>>]

\* respond(options) of handleOutput
respond(selector, r, accept) ==
    LET toks == tokens(selector, TRUE)
        bad == firstUnregistered(toks)
    IN  IF bad # 0
        THEN Effect(TRUE, Err("NotSupportedError", toks[bad].type),
                    DataVal(""), r, 0, 0)
        ELSE runFormat(r, "handleOutput", "output", formatKeys(toks),
                       formatEntries(toks), accept)

\* a promise of the library, still pending: handleOutput's deferred
PendingPromise == [tag |-> "promise", data |-> "", err |-> NoErr]

\* the function handleOutput(opts) returns, called with data.  opts.kind:
\* "literal" (a string, <<>> when none was given), "fn1" (a function of the
\* data that returns str) or "fn2" (a function of the data and a callback)
handleOutput(opts, d, r, method, accept) ==
    IF ~Truthy(d) THEN Effect(FALSE, NoErr, DataVal(d), r, 0, 0)
    ELSE LET r1 == IF method = "post" THEN setStatus(r, 201) ELSE r
             selector == IF opts.str # <<>> THEN opts.str ELSE <<"json">>
         IN  IF opts.kind = "fn2"
             THEN Effect(FALSE, NoErr, PendingPromise, r1, 0, 0)
             ELSE LET e == respond(selector, r1, accept)
                  IN  IF e.threw THEN e ELSE [e EXCEPT !.ret = DataVal(d)]

\* an ordinary value in the place of the dead awaitable, to compare
\* fakePromise with: a chain goes on after it
plainReturn == [tag |-> "data", data |-> "undefined", err |-> NoErr]

\* the object handle404's function returns once it has answered: its then
\* is fakePromise itself, which calls neither callback
fakePromise == [tag |-> "thenable", data |-> "", err |-> NoErr]

\* the function handle404(opts) returns, called with data
handle404(opts, d, r, accept) ==
    IF Truthy(d) THEN Effect(FALSE, NoErr, DataVal(d), r, 0, 0)
    ELSE LET r1 == setStatus(r, 404)
             toks == IF opts # <<>> THEN tokens(opts, FALSE)
                     ELSE [i \in 1..Len(handlerTypes) |->
                             [type |-> <<handlerTypes[i]>>, value |-> <<>>]]
             bad == firstUnregistered(toks)
         IN  IF bad # 0
             THEN Effect(TRUE, Err("NotSupportedError", toks[bad].type),
                         DataVal(""), r1, 0, 0)
             ELSE LET e == runFormat(r1, "handle404", "notFound",
                                     formatKeys(toks), formatEntries(toks),
                                     accept)
                  IN  IF e.threw THEN e ELSE [e EXCEPT !.ret = fakePromise]

\* `this` inside callNext: the object the method is called on.  The README
\* calls o.handle404.callNext(), so it is the function o.handle404
callNextSelf == "handle404"

\* self.next is a function
hasNext(self) == self = "translator"

\* the function handle404.callNext() returns, called with data
callNext(d, r) ==
    IF Truthy(d) THEN Effect(FALSE, NoErr, DataVal(d), r, 0, 0)
    ELSE IF hasNext(callNextSelf)
         THEN Effect(FALSE, NoErr, DataVal("undefined"), r, 0, 1)
         ELSE Effect(TRUE, NativeTypeError, DataVal(""), r, 0, 0)


---------------------------------------------------------------------------
(* Obj.prototype.select.  A whitelist is the key list of the compiled      *)
(* option, or null (configured FALSE) when the route gave none.            *)

NoWhiteList == [configured |-> FALSE, keys |-> <<>>]

\* whiteList && whiteList.length > 0
restricts(whiteList) == whiteList.configured /\ Len(whiteList.keys) > 0

\* the first field of the `select` parameter the whitelist does not hold
firstNotListed(fields, whiteList) ==
    IF \E i \in 1..Len(fields) : indexOf(whiteList.keys, fields[i]) = 0
    THEN CHOOSE i \in 1..Len(fields) :
            /\ indexOf(whiteList.keys, fields[i]) = 0
            /\ \A j \in 1..(i - 1) : indexOf(whiteList.keys, fields[j]) # 0
    ELSE 0

\* a loop that pushes every field of include, present or not, to compare
\* includeLoop with
includeEvery(fields, inc, i, whiteList) ==
    Returned(fields \o SubSeq(inc, i, Len(inc)))

\* the loop over include.split(','), from its i-th field on
RECURSIVE includeLoop(_, _, _, _)
includeLoop(fields, inc, i, whiteList) ==
    IF i > Len(inc) THEN Returned(fields)
    ELSE IF indexOf(fields, inc[i]) # 0
         THEN includeLoop(fields, inc, i + 1, whiteList)
         ELSE IF restricts(whiteList) /\ indexOf(whiteList.keys, inc[i]) = 0
              THEN Threw(Err("ArgumentError", inc[i]))
              ELSE includeLoop(Append(fields, inc[i]), inc, i + 1, whiteList)

\* a loop that pushes every field it does not find with a dash, whatever
\* the list holds, to compare excludeLoop with
excludeDashOnMiss(fields, exc, i, excludeWithDash) ==
    IF i > Len(exc) THEN fields
    ELSE LET rest == SubSeq(exc, i, Len(exc))
             found == {j \in 1..Len(fields) :
                         \E k \in 1..Len(rest) : rest[k] = fields[j]}
             kept == {j \in 1..Len(rest) :
                         \A k \in 1..Len(fields) : fields[k] # rest[j]}
         IN  SelectSeq(fields, LAMBDA f :
                          \A k \in 1..Len(rest) : rest[k] # f)
             \o [j \in 1..Cardinality(kept) |->
                    <<"-">> \o rest[CHOOSE x \in kept :
                                     Cardinality({y \in kept : y < x}) = j - 1]]

\* the loop over exclude.split(','), from its i-th field on
RECURSIVE excludeLoop(_, _, _, _)
excludeLoop(fields, exc, i, excludeWithDash) ==
    IF i > Len(exc) THEN fields
    ELSE LET index == indexOf(fields, exc[i])
         IN  IF index # 0
             THEN excludeLoop(splice(fields, index), exc, i + 1,
                              excludeWithDash)
             ELSE IF excludeWithDash \/ Len(fields) = 0
                  THEN excludeLoop(Append(fields, <<"-">> \o exc[i]), exc,
                                   i + 1, TRUE)
                  ELSE excludeLoop(fields, exc, i + 1, excludeWithDash)

\* select(opts) with the query parameters select, include and exclude
select(opts, query, whiteList) ==
    LET defaults == IF opts # <<>> THEN split(opts, " ") ELSE <<>>
        fields0 == IF query.select # <<>> THEN split(query.select, ",")
                   ELSE defaults
        bad == IF query.select # <<>> /\ restricts(whiteList)
               THEN firstNotListed(fields0, whiteList) ELSE 0
    IN  IF bad # 0 THEN Threw(Err("ArgumentError", fields0[bad]))
        ELSE LET inc == IF query.include # <<>>
                        THEN includeLoop(fields0, split(query.include, ","),
                                         1, whiteList)
                        ELSE Returned(fields0)
             IN  IF inc.threw THEN inc
                 ELSE LET fields == IF query.exclude # <<>>
                                    THEN excludeLoop(inc.val,
                                            split(query.exclude, ","), 1, FALSE)
                                    ELSE inc.val
                      IN  Returned(join(fields, " "))


---------------------------------------------------------------------------
(* Obj.prototype.getFilter.  The DSL, once parsed by the options parser,   *)
(* is a list of [name, alts]: a logical parameter and its alternative      *)
(* target expressions, each a string such as ObjectId(_id), whose          *)
(* parentheses are atoms of their own.  A path-parameter value is known by *)
(* its text s, its length, whether all its characters are hexadecimal      *)
(* digits and whether new Date(s) is a valid instant; present is FALSE     *)
(* for a parameter the request does not have.                              *)

ObjectIdLen == 24

Value(s, len, hex, date) ==
    [present |-> TRUE, s |-> s, len |-> len, hex |-> hex, date |-> date]

Absent == [present |-> FALSE, s |-> "", len |-> 0, hex |-> FALSE, date |-> FALSE]

\* !paramValue
falsyValue(v) == ~v.present \/ v.len = 0

\* a test for hexadecimal characters of any number, to compare isObjectId
\* with
isHexOfAnyLength(v) == v.hex

\* /^[a-fA-F0-9]{24}$/.test(paramValue)
isObjectId(v) == v.hex /\ v.len = ObjectIdLen

\* !isNaN(+new Date(paramValue))
isDate(v) == v.date

\* item.match(/(.+)\((.+)\)/): both groups are greedy, so the type ends at
\* the last "(" that a ")" follows with something in between, and the name
\* ends at the last ")"
matchType(item) ==
    LET opens == {p \in 2..Len(item) :
                    /\ item[p] = "("
                    /\ \E q \in (p + 2)..Len(item) : item[q] = ")"}
    IN  IF opens = {} THEN [matched |-> FALSE, type |-> <<>>, name |-> <<>>]
        ELSE LET p == CHOOSE x \in opens : \A y \in opens : y <= x
                 q == CHOOSE x \in (p + 2)..Len(item) :
                         /\ item[x] = ")"
                         /\ \A y \in (x + 1)..Len(item) : item[y] # ")"
             IN  [matched |-> TRUE, type |-> SubSeq(item, 1, p - 1),
                  name |-> SubSeq(item, p + 1, q - 1)]

\* a map callback that returns null for an alternative without a type
\* definition too, to compare castField with
castTypedOnly(item, paramValue) ==
    LET m == matchType(item)
        valid == \/ m.type = <<"ObjectId">> /\ isObjectId(paramValue)
                 \/ m.type = <<"Date">> /\ isDate(paramValue)
    IN  IF m.matched /\ valid THEN [kept |-> TRUE, field |-> m.name]
        ELSE [kept |-> FALSE, field |-> <<>>]

\* the map callback: the target field of an alternative, or null (kept
\* FALSE) when the alternative is dropped
castField(item, paramValue) ==
    LET m == matchType(item)
    IN  IF ~m.matched THEN [kept |-> TRUE, field |-> item]
        ELSE CASE m.type = <<"ObjectId">> ->
                    IF ~isObjectId(paramValue)
                    THEN [kept |-> FALSE, field |-> <<>>]
                    ELSE [kept |-> TRUE, field |-> m.name]
               [] m.type = <<"Date">> ->
                    IF ~isDate(paramValue)
                    THEN [kept |-> FALSE, field |-> <<>>]
                    ELSE [kept |-> TRUE, field |-> m.name]
               [] OTHER -> [kept |-> FALSE, field |-> <<>>]

\* options[paramName].map(...).filter(item !== null)
RECURSIVE castFields(_, _)
castFields(alts, paramValue) ==
    IF alts = <<>> THEN <<>>
    ELSE LET c == castField(Head(alts), paramValue)
             rest == castFields(Tail(alts), paramValue)
         IN  IF c.kept THEN <<c.field>> \o rest ELSE rest

\* a property of the filter: a path-parameter value, an $or list of
\* {field: value} objects or an $and list of {$or: list} objects
EqProp(v)    == [t |-> "eq", val |-> v, or |-> <<>>, and |-> <<>>]
OrProp(list) == [t |-> "or", val |-> Absent, or |-> list, and |-> <<>>]
AndProp(gs)  == [t |-> "and", val |-> Absent, or |-> <<>>, and |-> gs]

\* obj[key] = v on an object kept as its list of [key, v] in key order
setProp(obj, key, v) ==
    IF \E i \in 1..Len(obj) : obj[i].key = key
    THEN [i \in 1..Len(obj) |->
            IF obj[i].key = key THEN [key |-> key, v |-> v] ELSE obj[i]]
    ELSE Append(obj, [key |-> key, v |-> v])

\* the filters list of one parameter: one {field: paramValue} per field
orList(fields, paramValue) ==
    [i \in 1..Len(fields) |-> [field |-> fields[i], val |-> paramValue]]

\* what follows the loop over the parameters
compose(filter, orFilters) ==
    IF Len(orFilters) = 1
    THEN setProp(filter, <<"$or">>, OrProp(orFilters[1]))
    ELSE IF Len(orFilters) > 1
         THEN setProp(filter, <<"$and">>, AndProp(orFilters))
         ELSE filter

\* the loop over paramNames, from the i-th parameter on
RECURSIVE filterLoop(_, _, _, _, _)
filterLoop(dsl, params, i, filter, orFilters) ==
    IF i > Len(dsl) THEN Returned(compose(filter, orFilters))
    ELSE LET paramName == dsl[i].name
             paramValue == params[i]
         IN  IF falsyValue(paramValue)
             THEN Threw(Err("ArgumentNullError", paramName))
             ELSE LET fields == castFields(dsl[i].alts, paramValue)
                  IN  IF Len(fields) = 0
                      THEN Threw(Err("TypeError", paramName))
                      ELSE IF Len(fields) = 1
                      THEN filterLoop(dsl, params, i + 1,
                               setProp(filter, fields[1], EqProp(paramValue)),
                               orFilters)
                      ELSE filterLoop(dsl, params, i + 1, filter,
                               Append(orFilters, orList(fields, paramValue)))

\* getFilter(opts): dsl is the parsed opts, params[i] is
\* req.params[dsl[i].name]
getFilter(dsl, params) == filterLoop(dsl, params, 1, <<>>, <<>>)


---------------------------------------------------------------------------
(* The Obj constructor and the builders find, sort, limit and skip.  The   *)
(* route's options give a ceiling as a number, 0 standing for a ceiling    *)
(* that is not given; +options.limit || 100 makes 100 of that and of a 0.  *)

DefaultCeiling == 100

NoOptions == [select |-> NoWhiteList, sort |-> NoWhiteList,
              limit |-> 0, skip |-> 0]

\* options kept as the route gave them, with no ceiling of their own, to
\* compare Obj with
ObjAsGiven(routeOptions) == routeOptions

\* self.options as the constructor sets it
Obj(routeOptions) ==
    [select |-> routeOptions.select,
     sort   |-> routeOptions.sort,
     limit  |-> IF routeOptions.limit # 0 THEN routeOptions.limit
                ELSE DefaultCeiling,
     skip   |-> IF routeOptions.skip # 0 THEN routeOptions.skip
                ELSE DefaultCeiling]

\* a query-string value read as a number: numeric is FALSE for a text that
\* is no number, such as "abc"
NumParam(numeric, n) == [present |-> TRUE, numeric |-> numeric, n |-> n]

NoParam == [present |-> FALSE, numeric |-> FALSE, n |-> 0]

\* +value: NaN for undefined and for a text that is no number
toNumber(value) ==
    IF value.present /\ value.numeric THEN [nan |-> FALSE, n |-> value.n]
    ELSE [nan |-> TRUE, n |-> 0]

\* a fallback taken for NaN alone, to compare orElse with
orElseForNaN(number, other) == IF number.nan THEN other ELSE number.n

\* number || other: NaN and 0 are falsy
orElse(number, other) ==
    IF number.nan \/ number.n = 0 THEN other ELSE number.n

\* limit(defaultLimit)
limit(defaultLimit, query, opts) ==
    LET lim == orElse(toNumber(query.limit), defaultLimit)
    IN  IF lim > opts.limit \/ defaultLimit > opts.limit
        THEN Threw(Err("RangeError", <<>>))
        ELSE Returned(lim)

\* skip()
skip(query, opts) ==
    LET maxSkip == opts.skip
        n == orElse(toNumber(query.skip), 0)
    IN  IF maxSkip # 0 /\ n > maxSkip
        THEN Threw(Err("RangeError", <<>>))
        ELSE Returned(n)

\* the forEach over sort.split(','), from its i-th item on: s is the
\* mapping so far, a list of [key, v] in the order the keys were first set
RECURSIVE sortLoop(_, _, _)
sortLoop(items, i, s) ==
    IF i > Len(items) THEN s
    ELSE LET item == items[i]
             direction == IF item = <<>> THEN "" ELSE item[1]
         IN  IF direction \in {"-", "+"}
             THEN sortLoop(items, i + 1,
                           setProp(s, Tail(item),
                                   IF direction = "-" THEN -1 ELSE 1))
             ELSE sortLoop(items, i + 1, setProp(s, item, 1))

\* a test that finds every key sortable, to compare firstNotSortable with
allSortable(s, whiteList) == 0

\* the first key of s the whitelist does not hold, 0 when it holds all
firstNotSortable(s, whiteList) ==
    IF \E i \in 1..Len(s) : indexOf(whiteList.keys, s[i].key) = 0
    THEN CHOOSE i \in 1..Len(s) :
            /\ indexOf(whiteList.keys, s[i].key) = 0
            /\ \A j \in 1..(i - 1) : indexOf(whiteList.keys, s[j].key) # 0
    ELSE 0

\* sort(opts): the whitelist is tested for being there, not for its length
sort(opts, query, whiteList) ==
    LET text == IF query.sort # <<>> THEN query.sort ELSE opts
        s == IF text # <<>> THEN sortLoop(split(text, ","), 1, <<>>)
             ELSE <<>>
        bad == IF whiteList.configured THEN firstNotSortable(s, whiteList)
               ELSE 0
    IN  IF bad # 0 THEN Threw(Err("ArgumentError", s[bad].key))
        ELSE Returned(s)

\* a JSON text is known by what JSON.parse makes of it: wellFormed FALSE
\* when it throws, else the value, an object with its members or the
\* literal null.  A member is a string, a number or, once revived, a date;
\* iso says that a string matches the reviver's pattern
Member(key, t, s, iso) == [key |-> key, t |-> t, s |-> s, iso |-> iso]

JsonObject(members) == [kind |-> "object", members |-> members]

JsonNull == [kind |-> "null", members |-> <<>>]

JsonText(wellFormed, value) ==
    [present |-> TRUE, wellFormed |-> wellFormed, value |-> value]

NoText == [present |-> FALSE, wellFormed |-> FALSE, value |-> JsonNull]

\* a reviver that leaves every value as it is, to compare reviver with
keepValue(member) == member

\* reviver(key, value)
reviver(member) ==
    IF member.t = "string" /\ member.iso
    THEN [member EXCEPT !.t = "date"]
    ELSE member

\* JSON.parse(text, reviver) of a well-formed text
parse(text) ==
    IF text.value.kind = "object"
    THEN JsonObject([i \in 1..Len(text.value.members) |->
                        reviver(text.value.members[i])])
    ELSE text.value

\* find()
find(query) ==
    IF ~query.find.present THEN Returned(JsonObject(<<>>))
    ELSE IF ~query.find.wellFormed THEN Threw(Err("SyntaxError", <<>>))
    ELSE LET value == parse(query.find)
         IN  Returned(IF value.kind = "null" THEN JsonObject(<<>>)
                      ELSE value)

---------------------------------------------------------------------------
(* Obj.prototype.getBody.  An object (req.body, a file's parsed content)   *)
(* maps each key of BodyKeys to its value, 0 standing for undefined: the   *)
(* key is not in the object.  req.files is an array of files, an object    *)
(* keyed by field name (which has no length), or missing.                  *)

BodyKeys == {"title", "author"}

Objects == [BodyKeys -> {0, 1, 2}]

keysOf(obj) == {k \in BodyKeys : obj[k] # 0}

EmptyObject == [k \in BodyKeys |-> 0]

File(mimetype, readable, valid, parsed) ==
    [mimetype |-> mimetype, readable |-> readable, valid |-> valid,
     parsed |-> parsed]

NoFiles == [shape |-> "none", items |-> <<>>]

\* files && files.length > 0
hasFiles(files) == files.shape = "array" /\ Len(files.items) > 0

\* the forEach over Object.keys(body) in the read callback
merge(parsedData, b) ==
    [key \in BodyKeys |->
        IF b[key] # 0 /\ parsedData[key] = 0 THEN b[key] ELSE parsedData[key]]

NoBody ==
    [deferred |-> "none", value |-> EmptyObject, err |-> NoErr,
     hack |-> FALSE, hackRan |-> FALSE, read |-> "none",
     file |-> File("", FALSE, FALSE, EmptyObject), uncaught |-> FALSE]

\* getBody() up to its return or throw: the state it leaves the deferred,
\* the rejection handler and the file read in, and what it threw
getBody(files, b) ==
    IF hasFiles(files)
    THEN LET attached == [NoBody EXCEPT !.deferred = "pending", !.hack = TRUE]
             file == files.items[1]
         IN  IF Len(files.items) > 1
             THEN [threw |-> TRUE, err |-> Err("Error", <<>>),
                   body |-> attached]
             ELSE IF file.mimetype = "application/json"
             THEN [threw |-> FALSE, err |-> NoErr,
                   body |-> [attached EXCEPT !.read = "pending",
                                             !.file = file]]
             ELSE [threw |-> TRUE, err |-> Err("TypeError", <<>>),
                   body |-> [attached EXCEPT !.deferred = "rejected",
                                !.err = Err("TypeError", <<>>),
                                !.file = file]]
    ELSE [threw |-> FALSE, err |-> NoErr,
          body |-> [NoBody EXCEPT !.deferred = "resolved", !.value = b]]

\* fs.readFile's callback
readCallback(bd, b) ==
    IF ~bd.file.readable
    THEN [bd EXCEPT !.read = "done", !.deferred = "rejected",
                    !.err = Err("FileNotFoundError", <<>>)]
    ELSE IF ~bd.file.valid
    THEN \* JSON.parse throws out of the callback
         [bd EXCEPT !.read = "done", !.uncaught = TRUE]
    ELSE [bd EXCEPT !.read = "done", !.deferred = "resolved",
                    !.value = merge(bd.file.parsed, b)]

---------------------------------------------------------------------------
(* The inputs of a request.                                                *)

\* the longest run of further links chained after the documented ones
MaxExtraSteps == 2

\* the most logical parameters of a getFilter DSL
MaxParams == 3

Accepts == {"text/html", "application/json", XlsxType, "text/plain", "*/*"}

Methods == {"GET", "POST"}

\* what the store's promise is fulfilled with
DataValues == {"doc", "list", "null", "undefined"}

ErrorNames ==
    {"CastError", "ValidationError", "ArgumentError", "ArgumentNullError",
     "RangeError", "TypeError", "AuthenticationRequiredError",
     "NotPermittedError", "NotFoundError", "NotSupportedError", "MongoError",
     "AlreadyInUseError", "URIError", "Error", ""}

\* what the store's promise is rejected with: an error with no status, an
\* error that carries one, or a falsy value
Rejections ==
    {Err(n, <<>>) : n \in ErrorNames}
    \cup {[Err(n, <<>>) EXCEPT !.status = st] :
            n \in {"ValidationError", "NotFoundError", ""}, st \in {422}}
    \cup {[NoErr EXCEPT !.kind = k] :
            k \in {"undefined", "null", "false", "zero", "empty"}}

Literal(str) == [kind |-> "literal", str |-> str]

\* handleOutput's argument
OutputSelectors ==
    {Literal(<<>>),
     Literal(<<"html", ":", "tpl", " ", "json">>),
     Literal(<<"json", " ", "pdf">>),
     Literal(<<"html", ":", "redirect(", "/login", ")", " ", "xlsx">>),
     Literal(<<"html", ":", "redirect(", "http", ":", "//host", ")">>),
     [kind |-> "fn1", str |-> <<"json">>],
     [kind |-> "fn2", str |-> <<"html", ":", "tpl", " ", "json">>],
     [kind |-> "fn2", str |-> <<"pdf">>],
     Literal(<<"pdf", " ", "html", ":", "tpl">>)}

\* handle404's argument
NotFoundSelectors ==
    {<<>>,
     <<"html", ":", "special", " ", "json">>,
     <<"json", " ", "pdf">>,
     <<"pdf", " ", "json">>}

Handler(fn, sel) == [fn |-> fn, sel |-> sel]

NoHandler == Handler("none", Literal(<<>>))

Link(ok, err) == [ok |-> ok, err |-> err]

\* n further .then(fn, fn) links of the caller's own
extraLinks(n) ==
    [i \in 1..n |-> Link(Handler("probe", Literal(<<>>)),
                         Handler("probe", Literal(<<>>)))]

\* README: .then(o.handleOutput(sel)).then(o.handle404(sel2), o.handleError())
\* (arrangement "A"), or .then(o.handle404(sel2)).then(null, o.handleError())
\* ("B"); notFound is "handle404" or "callNext"
documentedChain(arrangement, notFound, sel, sel2) ==
    LET out == Link(Handler("handleOutput", sel), NoHandler)
        nf == Handler(notFound, Literal(sel2))
        he == Handler("handleError", Literal(<<>>))
    IN  IF arrangement = "A" THEN <<out, Link(nf, he)>>
        ELSE <<out, Link(nf, NoHandler), Link(NoHandler, he)>>

---------------------------------------------------------------------------
(* The state before a request.                                              *)

\* what the route callback did: the builder it called with its arguments
\* and outcome, or the chain it set up (its arrangement, its not-found
\* handler, the kind of handleOutput's selector and how the store's promise
\* settled)
NoCall == [op |-> "none", opts |-> <<>>, dsl |-> <<>>, out |-> Returned(<<>>),
           arrangement |-> "", notFound |-> "", selector |-> "",
           upstream |-> "", configured |-> FALSE,
           sel |-> Literal(<<>>), sel2 |-> <<>>]

NoChain == [settle |-> "none", value |-> DataVal(""), links |-> <<>>,
            wait |-> "", sel |-> <<>>]

NoQuery == [select |-> <<>>, include |-> <<>>, exclude |-> <<>>,
            sort |-> <<>>, limit |-> NoParam, skip |-> NoParam,
            find |-> NoText]

req0 == [method |-> "GET", accept |-> "*/*", query |-> NoQuery,
         params |-> <<>>, body |-> EmptyObject, files |-> NoFiles]

Init ==
    /\ pc = "idle"
    /\ options = Obj(NoOptions)
    /\ req = req0
    /\ res = res0
    /\ nextCalls = 0
    /\ logged = 0
    /\ call = NoCall
    /\ chain = NoChain
    /\ invoked = <<>>
    /\ body = NoBody

---------------------------------------------------------------------------
(* module.exports: the dispatcher runs the route callback and hands what   *)
(* it throws to handleError.                                               *)

\* the value a handler was called with is falsy
falsyArg(value) ==
    IF value.tag = "err" THEN value.err.kind # "object"
    ELSE ~Truthy(value.data)

\* the record of one call of a handler: what it was called with and what
\* the call did to the response r (status: the last status it set, 0 when
\* it set none; sent: the status of the response it wrote and who sent it)
Called(fn, value, r, eff) ==
    [fn |-> fn, arg |-> value, falsy |-> falsyArg(value),
     wrote |-> Len(eff.res.writes) > Len(r.writes),
     sent |-> IF Len(eff.res.writes) > Len(r.writes)
              THEN eff.res.writes[Len(eff.res.writes)].status ELSE 0,
     sentBy |-> IF Len(eff.res.writes) > Len(r.writes)
                THEN eff.res.writes[Len(eff.res.writes)].by ELSE "",
     status |-> IF Len(eff.res.statusCalls) > Len(r.statusCalls)
                THEN eff.res.statusCalls[Len(eff.res.statusCalls)] ELSE 0,
     logged |-> eff.logged > 0,
     nexted |-> eff.next > 0,
     threw |-> eff.threw,
     err |-> eff.err,
     header |-> eff.res.contentType # r.contentType,
     ret |-> eff.ret]

\* the catch block: out is what the callback's builder call came to
dispatcherCatch(out, r, accept) ==
    IF out.threw THEN handleError(out.err, r, accept)
    ELSE Effect(FALSE, NoErr, DataVal("undefined"), r, 0, 0)

\* the handlers invoked once the dispatcher is through
afterDispatch(out, r, eff, before) ==
    IF out.threw
    THEN Append(before, Called("handleError", ErrVal(out.err), r, eff))
    ELSE before


\* select's arguments and query parameters
DefaultFields ==
    {<<>>, <<"title", " ", "name", " ", "createdAt">>, <<"secret">>}

SelectParams ==
    {<<>>, <<"title", ",", "name">>, <<"title", ",", "secret">>,
     <<"name", ",", "name">>}

IncludeParams ==
    {<<>>, <<"createdAt">>, <<"secret">>, <<"name", ",", "createdAt">>,
     <<"createdAt", ",", "createdAt">>}

ExcludeParams ==
    {<<>>, <<"name">>, <<"_id">>, <<"_id", " ", "secret">>,
     <<"name", ",", "_id">>, <<"_id", ",", "name">>,
     <<"secret", ",", "_id", ",", "secret">>}

WhiteLists ==
    {NoWhiteList,
     [configured |-> TRUE, keys |-> <<>>],
     [configured |-> TRUE, keys |-> <<<<"title">>, <<"name">>, <<"createdAt">>>>]}

\* a route callback that calls o.select(opts)
RouteSelect ==
    /\ pc = "idle"
    /\ \E opts \in DefaultFields, sel \in SelectParams, inc \in IncludeParams,
          exc \in ExcludeParams, wl \in WhiteLists, accept \in Accepts :
          LET query == [NoQuery EXCEPT !.select = sel, !.include = inc,
                                       !.exclude = exc]
              out == select(opts, query, wl)
              eff == dispatcherCatch(out, res, accept)
          IN  /\ options' = Obj([NoOptions EXCEPT !.select = wl])
              /\ req' = [req EXCEPT !.query = query, !.accept = accept]
              /\ call' = [NoCall EXCEPT !.op = "select", !.opts = opts,
                                        !.out = out]
              /\ res' = eff.res
              /\ logged' = logged + eff.logged
              /\ invoked' = afterDispatch(out, res, eff, invoked)
    /\ pc' = "done"
    /\ UNCHANGED <<nextCalls, chain, body>>

\* getFilter's alternatives and the path-parameter values
Slug     == <<"slug">>
TypedId  == <<"ObjectId", "(", "_id", ")">>
TypedAt  == <<"Date", "(", "createdAt", ")">>
TypedNum == <<"Number", "(", "count", ")">>

AltLists ==
    {<<Slug>>, <<TypedId, Slug>>, <<TypedId, TypedAt>>, <<TypedNum>>}

Values ==
    {Absent,
     Value("507f1f77bcf86cd799439011", 24, TRUE, FALSE),
     Value("cafe", 4, TRUE, FALSE),
     Value("the-slug-of-this-article", 24, FALSE, FALSE),
     Value("2015-06-01", 10, FALSE, TRUE)}

ParamPool == <<"id", "section", "subSection", "type", "slug">>

\* alternatives of which the first carries a tag that is no type of
\* getFilter's and the second carries none
FirstAltLists == AltLists \cup {<<TypedNum, Slug>>}

\* the DSLs of n logical parameters
Dsls(n) ==
    {[i \in 1..n |-> [name |-> <<ParamPool[i]>>, alts |-> f[i]]] :
        f \in {g \in [1..n -> FirstAltLists] :
                  \A i \in 2..n : g[i] \in AltLists}}

\* a route callback that calls o.getFilter(opts)
RouteGetFilter ==
    /\ pc = "idle"
    /\ \E n \in 1..MaxParams, accept \in Accepts :
       \E dsl \in Dsls(n), params \in [1..n -> Values] :
          LET out == getFilter(dsl, params)
              eff == dispatcherCatch(out, res, accept)
          IN  /\ req' = [req EXCEPT !.params = params, !.accept = accept]
              /\ call' = [NoCall EXCEPT !.op = "getFilter", !.dsl = dsl,
                                        !.out = out]
              /\ res' = eff.res
              /\ logged' = logged + eff.logged
              /\ invoked' = afterDispatch(out, res, eff, invoked)
    /\ pc' = "done"
    /\ UNCHANGED <<options, nextCalls, chain, body>>

\* sort's arguments, query parameters and whitelists
DefaultSorts == {<<>>, <<"-", "createdAt">>, <<"secret">>}

SortParams ==
    {<<>>, <<"-", "_id", ",", "+", "title">>, <<"title">>,
     <<"title", ",", "-", "title">>, <<"-", "secret", ",", "title">>,
     <<"+", "createdAt">>}

SortWhiteLists ==
    {NoWhiteList,
     [configured |-> TRUE, keys |-> <<>>],
     [configured |-> TRUE, keys |-> <<<<"_id">>, <<"title">>, <<"createdAt">>>>]}

\* a route callback that calls o.sort(opts)
RouteSort ==
    /\ pc = "idle"
    /\ \E opts \in DefaultSorts, param \in SortParams, wl \in SortWhiteLists,
          accept \in Accepts :
          LET query == [NoQuery EXCEPT !.sort = param]
              out == sort(opts, query, wl)
              eff == dispatcherCatch(out, res, accept)
          IN  /\ options' = Obj([NoOptions EXCEPT !.sort = wl])
              /\ req' = [req EXCEPT !.query = query, !.accept = accept]
              /\ call' = [NoCall EXCEPT !.op = "sort", !.opts = opts,
                                        !.out = out]
              /\ res' = eff.res
              /\ logged' = logged + eff.logged
              /\ invoked' = afterDispatch(out, res, eff, invoked)
    /\ pc' = "done"
    /\ UNCHANGED <<nextCalls, chain, body>>

\* the limit and skip query parameters: none, "abc", and numbers
NumParams ==
    {NoParam, NumParam(FALSE, 0), NumParam(TRUE, 0), NumParam(TRUE, 10),
     NumParam(TRUE, 100), NumParam(TRUE, 101), NumParam(TRUE, 500)}

\* limit's argument
DefaultLimits == {20, 100, 150}

\* the ceilings a route gives: none, or a number
Ceilings == {0, 50, 200}

\* a route callback that calls o.limit(defaultLimit)
RouteLimit ==
    /\ pc = "idle"
    /\ \E defaultLimit \in DefaultLimits, param \in NumParams,
          ceiling \in Ceilings, accept \in Accepts :
          LET query == [NoQuery EXCEPT !.limit = param]
              opts == Obj([NoOptions EXCEPT !.limit = ceiling])
              out == limit(defaultLimit, query, opts)
              eff == dispatcherCatch(out, res, accept)
          IN  /\ options' = opts
              /\ req' = [req EXCEPT !.query = query, !.accept = accept]
              /\ call' = [NoCall EXCEPT !.op = "limit", !.opts = defaultLimit,
                                        !.configured = ceiling # 0,
                                        !.out = out]
              /\ res' = eff.res
              /\ logged' = logged + eff.logged
              /\ invoked' = afterDispatch(out, res, eff, invoked)
    /\ pc' = "done"
    /\ UNCHANGED <<nextCalls, chain, body>>

\* a route callback that calls o.skip()
RouteSkip ==
    /\ pc = "idle"
    /\ \E param \in NumParams, ceiling \in Ceilings, accept \in Accepts :
          LET query == [NoQuery EXCEPT !.skip = param]
              opts == Obj([NoOptions EXCEPT !.skip = ceiling])
              out == skip(query, opts)
              eff == dispatcherCatch(out, res, accept)
          IN  /\ options' = opts
              /\ req' = [req EXCEPT !.query = query, !.accept = accept]
              /\ call' = [NoCall EXCEPT !.op = "skip",
                                        !.configured = ceiling # 0,
                                        !.out = out]
              /\ res' = eff.res
              /\ logged' = logged + eff.logged
              /\ invoked' = afterDispatch(out, res, eff, invoked)
    /\ pc' = "done"
    /\ UNCHANGED <<nextCalls, chain, body>>

\* the find query parameter: none, a malformed text, null, and objects
\* with a timestamp the reviver matches and with strings it does not
FindParams ==
    {NoText,
     JsonText(FALSE, JsonNull),
     JsonText(TRUE, JsonNull),
     JsonText(TRUE, JsonObject(<<>>)),
     JsonText(TRUE, JsonObject(
        <<Member("createdAt", "string", "2011-06-01T09:58:56.793Z", TRUE)>>)),
     JsonText(TRUE, JsonObject(
        <<Member("locale", "string", "en_GB", FALSE),
          Member("createdAt", "string", "2011-06-01", FALSE),
          Member("count", "number", "3", FALSE)>>))}

\* a route callback that calls o.find()
RouteFind ==
    /\ pc = "idle"
    /\ \E param \in FindParams, accept \in Accepts :
          LET query == [NoQuery EXCEPT !.find = param]
              out == find(query)
              eff == dispatcherCatch(out, res, accept)
          IN  /\ req' = [req EXCEPT !.query = query, !.accept = accept]
              /\ call' = [NoCall EXCEPT !.op = "find", !.out = out]
              /\ res' = eff.res
              /\ logged' = logged + eff.logged
              /\ invoked' = afterDispatch(out, res, eff, invoked)
    /\ pc' = "done"
    /\ UNCHANGED <<options, nextCalls, chain, body>>

---------------------------------------------------------------------------
(* The promise chain.  settle is the state of the promise the next link    *)
(* hangs on; a pending one waits for the asynchronous selector ("selector")*)
(* or for a thenable or a deferred nothing will ever settle ("never").     *)

\* a route callback that sets up the documented chain on the store's
\* promise.  A rejected promise skips handleOutput and handle404, which then
\* read no selector: one selector stands for all of them
RouteChain ==
    /\ pc = "idle"
    /\ \E arrangement \in {"A", "B"}, notFound \in {"handle404", "callNext"},
          accept \in Accepts, method \in Methods, n \in 0..MaxExtraSteps :
          /\ \/ \E d \in DataValues, sel \in OutputSelectors,
                   sel2 \in NotFoundSelectors :
                   chain' = [NoChain EXCEPT
                                !.settle = "fulfilled", !.value = DataVal(d),
                                !.links = documentedChain(arrangement,
                                             notFound, sel, sel2)
                                          \o extraLinks(n)]
             \/ \E e \in Rejections :
                   chain' = [NoChain EXCEPT
                                !.settle = "rejected", !.value = ErrVal(e),
                                !.links = documentedChain(arrangement,
                                             notFound, Literal(<<>>), <<>>)
                                          \o extraLinks(n)]
          /\ req' = [req EXCEPT !.accept = accept, !.method = method]
          /\ call' = [NoCall EXCEPT !.op = "chain",
                                    !.arrangement = arrangement,
                                    !.notFound = notFound,
                                    !.selector =
                                        chain'.links[1].ok.sel.kind,
                                    !.upstream = chain'.settle,
                                    !.sel = chain'.links[1].ok.sel,
                                    !.sel2 = chain'.links[2].ok.sel.str]
    /\ pc' = "chain"
    /\ UNCHANGED <<options, res, nextCalls, logged, invoked, body>>

\* the call of one handler of a link with the value its promise settled to
runHandler(h, value, r, method, accept) ==
    CASE h.fn = "handleOutput" ->
            handleOutput(h.sel, value.data, r, method, accept)
      [] h.fn = "handle404" -> handle404(h.sel.str, value.data, r, accept)
      [] h.fn = "callNext" -> callNext(value.data, r)
      [] h.fn = "handleError" -> handleError(value.err, r, accept)
      [] h.fn = "probe" -> Effect(FALSE, NoErr, DataVal("undefined"), r, 0, 0)

\* the promise a link returns, given what its handler did: a thrown error
\* rejects it, a thenable is asked (through its then) to settle it, a
\* promise of the library settles it when it settles itself
settled(eff, rest) ==
    IF eff.threw
    THEN [NoChain EXCEPT !.settle = "rejected", !.value = ErrVal(eff.err),
                         !.links = rest]
    ELSE IF IsThenable(eff.ret)
    THEN [NoChain EXCEPT !.settle = "pending", !.wait = "never",
                         !.links = rest]
    ELSE [NoChain EXCEPT !.settle = "fulfilled", !.value = eff.ret,
                         !.links = rest]

\* one turn of the chain: the next link's handler for the settled state
\* runs, or the link passes the state on when it has none
ChainStep ==
    /\ pc = "chain"
    /\ chain.settle \in {"fulfilled", "rejected"}
    /\ chain.links # <<>>
    /\ LET link == Head(chain.links)
           rest == Tail(chain.links)
           h == IF chain.settle = "fulfilled" THEN link.ok ELSE link.err
       IN  IF h.fn = "none"
           THEN /\ chain' = [chain EXCEPT !.links = rest]
                /\ pc' = IF rest = <<>> THEN "done" ELSE "chain"
                /\ UNCHANGED <<res, nextCalls, logged, invoked>>
           ELSE LET eff == runHandler(h, chain.value, res, req.method,
                                      req.accept)
                IN  /\ res' = eff.res
                    /\ nextCalls' = nextCalls + eff.next
                    /\ logged' = logged + eff.logged
                    /\ invoked' = Append(invoked,
                                         Called(h.fn, chain.value, res, eff))
                    /\ IF ~eff.threw /\ eff.ret.tag = "promise"
                       THEN chain' = [NoChain EXCEPT
                                         !.settle = "pending",
                                         !.wait = "selector",
                                         !.value = chain.value,
                                         !.sel = h.sel.str, !.links = rest]
                       ELSE chain' = settled(eff, rest)
                    /\ pc' = IF rest = <<>> /\ chain'.settle # "pending"
                             THEN "done" ELSE "chain"
    /\ UNCHANGED <<options, req, call, body>>

\* the asynchronous selector calls its callback with the token string:
\* respond runs and the deferred is resolved with the data; what respond
\* throws goes to the selector, and the deferred is never resolved
SelectorCallback ==
    /\ pc = "chain"
    /\ chain.settle = "pending"
    /\ chain.wait = "selector"
    /\ LET eff == respond(chain.sel, res, req.accept)
       IN  /\ res' = eff.res
           /\ invoked' = Append(invoked,
                                Called("respond", chain.value, res, eff))
           /\ chain' = IF eff.threw THEN [chain EXCEPT !.wait = "never"]
                       ELSE [chain EXCEPT !.settle = "fulfilled",
                                          !.wait = "", !.sel = <<>>]
           /\ pc' = IF chain.links = <<>> /\ ~eff.threw THEN "done"
                    ELSE "chain"
    /\ UNCHANGED <<options, req, nextCalls, logged, call, body>>

---------------------------------------------------------------------------
(* getBody's route and its asynchronous steps.                             *)

JsonFiles ==
    {File("application/json", TRUE, TRUE, o) : o \in Objects}
    \cup {File("application/json", FALSE, FALSE, EmptyObject),
          File("application/json", TRUE, FALSE, EmptyObject)}

CsvFile == File("text/csv", TRUE, FALSE, EmptyObject)

Uploads ==
    {NoFiles}
    \cup {[shape |-> "array", items |-> <<f>>] : f \in JsonFiles \cup {CsvFile}}
    \cup {[shape |-> "array", items |-> <<f, CsvFile>>] : f \in {CsvFile}}
    \cup {[shape |-> "object", items |-> <<f>>] : f \in JsonFiles}

\* there is work left for a later turn: the read, or the rejection handler
bodyBusy(bd) ==
    \/ bd.read = "pending"
    \/ bd.deferred = "rejected" /\ bd.hack /\ ~bd.hackRan

\* a route callback that calls o.getBody()
RouteGetBody ==
    /\ pc = "idle"
    /\ \E files \in Uploads, b \in Objects, accept \in Accepts :
          LET out == getBody(files, b)
              eff == dispatcherCatch(out, res, accept)
          IN  /\ req' = [req EXCEPT !.files = files, !.body = b,
                                    !.accept = accept, !.method = "POST"]
              /\ body' = out.body
              /\ call' = [NoCall EXCEPT !.op = "getBody",
                             !.out = IF out.threw THEN Threw(out.err)
                                     ELSE Returned(<<>>)]
              /\ res' = eff.res
              /\ logged' = logged + eff.logged
              /\ invoked' = afterDispatch(out, res, eff, invoked)
              /\ pc' = IF bodyBusy(out.body) THEN "io" ELSE "done"
    /\ UNCHANGED <<options, nextCalls, chain>>

\* the file read ends and its callback runs
ReadFileCallback ==
    /\ pc = "io"
    /\ body.read = "pending"
    /\ body' = readCallback(body, req.body)
    /\ pc' = IF bodyBusy(body') THEN "io" ELSE "done"
    /\ UNCHANGED <<options, req, res, nextCalls, logged, call, chain, invoked>>

\* the handler getBody attached to its own promise runs on the rejection
RejectionHandler ==
    /\ pc = "io"
    /\ body.deferred = "rejected"
    /\ body.hack
    /\ ~body.hackRan
    /\ LET eff == handleError(body.err, res, req.accept)
       IN  /\ res' = eff.res
           /\ logged' = logged + eff.logged
           /\ invoked' = Append(invoked,
                 Called("handleError", ErrVal(body.err), res, eff))
    /\ body' = [body EXCEPT !.hackRan = TRUE]
    /\ pc' = IF body.read = "pending" THEN "io" ELSE "done"
    /\ UNCHANGED <<options, req, nextCalls, call, chain>>

Next ==
    \/ RouteSelect
    \/ RouteGetFilter
    \/ RouteSort
    \/ RouteLimit
    \/ RouteSkip
    \/ RouteFind
    \/ RouteChain
    \/ ChainStep
    \/ SelectorCallback
    \/ RouteGetBody
    \/ ReadFileCallback
    \/ RejectionHandler

Spec == Init /\ [][Next]_vars


---------------------------------------------------------------------------
(* The response pipeline.                                                  *)

\* the chain has come to rest: its last link has settled, or the promise
\* the next link hangs on will never settle
chainAtRest ==
    /\ call.op = "chain"
    /\ \/ pc = "done"
       \/ pc = "chain" /\ chain.settle = "pending" /\ chain.wait = "never"

\* C1: a request whose store promise is fulfilled, with truthy or falsy
\* data, and goes through handleOutput(sel), handle404(sel2) and handleError
\* in either documented arrangement, sel being a token string or a function
\* that returns one, has exactly one response written once the chain has
\* come to rest: never none, never more than one.
C1_ExactlyOneResponse ==
    (/\ chainAtRest
     /\ call.notFound = "handle404"
     /\ call.upstream = "fulfilled"
     /\ call.selector \in {"literal", "fn1"})
        => Len(res.writes) = 1

\* C2: once handle404's function has written its response, no handler of
\* any link chained after it is invoked: its call stays the last one, and
\* the chain stays pending.
C2_NothingRunsAfter404 ==
    \A i \in 1..Len(invoked) :
        (invoked[i].fn = "handle404" /\ invoked[i].wrote)
            => /\ i = Len(invoked)
               /\ pc = "chain"
               /\ chain.settle = "pending"

\* C2's case: handle404 has answered a request with falsy data while links
\* with fulfilment and rejection handlers are still chained after it
C2_Witness ==
    /\ invoked # <<>>
    /\ invoked[Len(invoked)].fn = "handle404"
    /\ invoked[Len(invoked)].wrote
    /\ invoked[Len(invoked)].falsy
    /\ Len(chain.links) >= 2
    /\ \E i \in 1..Len(chain.links) : chain.links[i].ok.fn = "probe"
    /\ \E i \in 1..Len(chain.links) : chain.links[i].err.fn = "handleError"

\* C3: the function o.handle404.callNext() returns, called with falsy data,
\* calls the request's next once and writes nothing; called with truthy
\* data it returns the data and does not call next.
C3_CallNextDefers ==
    \A i \in 1..Len(invoked) :
        invoked[i].fn = "callNext"
            => /\ ~invoked[i].threw
               /\ ~invoked[i].wrote
               /\ invoked[i].nexted = invoked[i].falsy
               /\ nextCalls = IF invoked[i].falsy THEN 1 ELSE 0

---------------------------------------------------------------------------
(* The error classifier.                                                   *)

\* the status the documentation gives an error's name
C4_Documented(name) ==
    IF name \in {"CastError", "ValidationError", "ArgumentError",
                 "ArgumentNullError", "RangeError", "TypeError"} THEN 400
    ELSE IF name = "AuthenticationRequiredError" THEN 401
    ELSE IF name = "NotPermittedError" THEN 403
    ELSE IF name = "NotFoundError" THEN 404
    ELSE IF name = "NotSupportedError" THEN 415
    ELSE IF name \in {"MongoError", "AlreadyInUseError"} THEN 409
    ELSE 500

\* C4: handleError, called with an error, sets the status the error
\* carries, or when it carries none the status documented for its name
\* (500 for any other or a missing name), and what it writes has that status.
C4_StatusByName ==
    \A i \in 1..Len(invoked) :
        (invoked[i].fn = "handleError" /\ ~invoked[i].falsy)
            => LET err == invoked[i].arg.err
                   expected == IF err.status # 0 THEN err.status
                               ELSE C4_Documented(err.name)
               IN  /\ invoked[i].status = expected
                   /\ invoked[i].sentBy = "handleError"
                         => invoked[i].sent = expected

\* C4's cases: an error with a status of its own and a documented name has
\* been answered with that status
C4_Witness ==
    \E i \in 1..Len(invoked) :
        /\ invoked[i].fn = "handleError"
        /\ invoked[i].arg.err.name = "NotFoundError"
        /\ invoked[i].arg.err.status = 422
        /\ invoked[i].status = 422
        /\ invoked[i].sentBy = "handleError"
        /\ invoked[i].sent = 422

\* C5: handleError's function called with a falsy value is a no-op: it
\* does not throw, logs nothing, sets no status and writes nothing.
C5_FalsyIsNoOp ==
    \A i \in 1..Len(invoked) :
        (invoked[i].fn = "handleError" /\ invoked[i].falsy)
            => /\ ~invoked[i].threw
               /\ ~invoked[i].logged
               /\ invoked[i].status = 0
               /\ ~invoked[i].wrote


---------------------------------------------------------------------------
(* getBody.                                                                *)

\* C6: when getBody has read the one uploaded application/json file, it
\* resolves with an object whose keys are those of the file's object and of
\* the request body together, and every key both have has the body's value.
C6_BodyTakesPrecedence ==
    (call.op = "getBody" /\ body.read = "done" /\ body.deferred = "resolved")
        => /\ keysOf(body.value) =
                 keysOf(body.file.parsed) \cup keysOf(req.body)
           /\ \A k \in keysOf(body.file.parsed) \cap keysOf(req.body) :
                 body.value[k] = req.body[k]

---------------------------------------------------------------------------
(* getFilter.                                                              *)

\* what the documentation says of one alternative and a value: an untyped
\* alternative targets the field it names, one tagged ObjectId survives
\* when the value is 24 hexadecimal characters, one tagged Date when the
\* value is a valid instant, and one with any other tag never
C8_Survives(item, v) ==
    IF Len(item) = 1 THEN TRUE
    ELSE IF item[1] = "ObjectId" THEN v.hex /\ v.len = 24
    ELSE IF item[1] = "Date" THEN v.date
    ELSE FALSE

C8_Target(item) == IF Len(item) = 1 THEN item ELSE <<item[3]>>

\* the parameters of the DSL that make getFilter fail: the value is absent,
\* or no alternative survives
C8_Failing(dsl, params) ==
    {i \in 1..Len(dsl) :
        \/ ~params[i].present
        \/ \A a \in 1..Len(dsl[i].alts) : ~C8_Survives(dsl[i].alts[a], params[i])}

\* C8: getFilter returns a filter exactly when every logical parameter has
\* a value and a surviving alternative; otherwise it throws, for the first
\* parameter that has not, ArgumentNullError naming it when its value is
\* absent and TypeError naming it when all its alternatives were dropped.
\* An alternative tagged ObjectId is dropped exactly when the value is not
\* 24 hexadecimal characters and one tagged Date exactly when the value is
\* no valid instant: id:ObjectId(_id),slug with an invalid id gives
\* {slug: value}.
C8_FailFast ==
    call.op = "getFilter"
        => LET dsl == call.dsl
               params == req.params
               failing == C8_Failing(dsl, params)
           IN  /\ call.out.threw = (failing # {})
               /\ failing # {}
                    => LET i == CHOOSE x \in failing :
                                   \A y \in failing : x <= y
                       IN  /\ call.out.err.arg = dsl[i].name
                           /\ call.out.err.name =
                                 IF ~params[i].present
                                 THEN "ArgumentNullError" ELSE "TypeError"
                           /\ call.out.val = <<>>
               /\ (/\ Len(dsl) = 1
                   /\ dsl[1].alts = <<TypedId, Slug>>
                   /\ params[1].present
                   /\ ~(params[1].hex /\ params[1].len = 24))
                    => call.out.val =
                          <<[key |-> Slug, v |-> EqProp(params[1])]>>

\* C8's case: both typed alternatives of the second parameter were dropped
\* for a value that is neither an ObjectId nor a date, and getFilter threw
\* the TypeError that names it
C8_Witness ==
    /\ call.op = "getFilter"
    /\ Len(call.dsl) >= 2
    /\ call.dsl[2].alts = <<TypedId, TypedAt>>
    /\ req.params[1].present
    /\ req.params[2].present
    /\ req.params[2].len # 24
    /\ call.out.threw
    /\ call.out.err.name = "TypeError"
    /\ call.out.err.arg = call.dsl[2].name

\* the fields of a parameter's surviving alternatives, in order
RECURSIVE C7_Fields(_, _)
C7_Fields(alts, v) ==
    IF alts = <<>> THEN <<>>
    ELSE (IF C8_Survives(Head(alts), v) THEN <<C8_Target(Head(alts))>>
          ELSE <<>>) \o C7_Fields(Tail(alts), v)

\* the property of the filter under key, if it has one
C7_Has(filter, key, prop) ==
    \E i \in 1..Len(filter) : filter[i].key = key /\ filter[i].v = prop

C7_HasKey(filter, key) == \E i \in 1..Len(filter) : filter[i].key = key

\* the {field: value} lists of the parameters with several surviving
\* alternatives, in parameter order
RECURSIVE C7_Groups(_, _, _)
C7_Groups(dsl, params, i) ==
    IF i > Len(dsl) THEN <<>>
    ELSE LET fields == C7_Fields(dsl[i].alts, params[i])
         IN  (IF Len(fields) >= 2
              THEN <<[j \in 1..Len(fields) |->
                        [field |-> fields[j], val |-> params[i]]]>>
              ELSE <<>>) \o C7_Groups(dsl, params, i + 1)

\* C7: in the filter getFilter returns, every parameter with exactly one
\* surviving alternative is an equality field = value at the root; when
\* exactly one parameter has several surviving alternatives its list of
\* equalities is the root $or; when two or more have, the root $and holds
\* one $or group per such parameter, in parameter order, each with only
\* that parameter's alternatives and value.
C7_Composition ==
    (call.op = "getFilter" /\ ~call.out.threw)
        => LET dsl == call.dsl
               params == req.params
               filter == call.out.val
               groups == C7_Groups(dsl, params, 1)
           IN  /\ \A i \in 1..Len(dsl) :
                     LET fields == C7_Fields(dsl[i].alts, params[i])
                     IN  Len(fields) = 1
                            => C7_Has(filter, fields[1], EqProp(params[i]))
               /\ Len(groups) = 1
                    => /\ C7_Has(filter, <<"$or">>, OrProp(groups[1]))
                       /\ ~C7_HasKey(filter, <<"$and">>)
               /\ Len(groups) >= 2
                    => /\ C7_Has(filter, <<"$and">>, AndProp(groups))
                       /\ ~C7_HasKey(filter, <<"$or">>)
               /\ Len(groups) = 0
                    => /\ ~C7_HasKey(filter, <<"$or">>)
                       /\ ~C7_HasKey(filter, <<"$and">>)

---------------------------------------------------------------------------
(* select.                                                                 *)

\* the fields a comma-separated query parameter names
C9_Named(param) == IF param = <<>> THEN <<>> ELSE split(param, ",")

\* some field of the list is outside the whitelist
C9_Outside(fields, whiteList) ==
    \E i \in 1..Len(fields) :
        \A k \in 1..Len(whiteList.keys) : whiteList.keys[k] # fields[i]

\* the plain tokens of a projection string: those that are not empty and
\* do not begin with a dash
C9_PlainTokens(projection) ==
    LET toks == IF projection = <<>> THEN <<>> ELSE split(projection, " ")
    IN  {toks[i] : i \in {j \in 1..Len(toks) :
                            toks[j] # <<>> /\ toks[j][1] # "-"}}

\* C9: with a select whitelist configured, select() throws ArgumentError
\* and returns no projection whenever the select or the include query
\* parameter names a field outside the whitelist, and every plain token of
\* a projection it returns is in the whitelist or one of defaultFields.
C9_PlainTokensWhitelisted ==
    (call.op = "select" /\ restricts(options.select))
        => LET whiteList == options.select
               defaults == IF call.opts = <<>> THEN <<>>
                           ELSE split(call.opts, " ")
           IN  /\ (\/ C9_Outside(C9_Named(req.query.select), whiteList)
                   \/ C9_Outside(C9_Named(req.query.include), whiteList))
                    => /\ call.out.threw
                       /\ call.out.err.name = "ArgumentError"
                       /\ call.out.val = <<>>
               /\ ~call.out.threw
                    => \A tok \in C9_PlainTokens(call.out.val) :
                          \/ \E k \in 1..Len(whiteList.keys) :
                                whiteList.keys[k] = tok
                          \/ \E k \in 1..Len(defaults) : defaults[k] = tok

\* the list select() starts from: the select parameter's fields when it is
\* present, the default fields otherwise
C10_Base(opts, query) ==
    IF query.select # <<>> THEN split(query.select, ",")
    ELSE IF opts # <<>> THEN split(opts, " ") ELSE <<>>

\* list followed by each field of inc that is not already in it, in order
RECURSIVE C10_Followed(_, _)
C10_Followed(list, inc) ==
    IF inc = <<>> THEN list
    ELSE C10_Followed(IF \E i \in 1..Len(list) : list[i] = Head(inc)
                      THEN list ELSE Append(list, Head(inc)),
                      Tail(inc))

\* C10: with no exclude parameter, the projection select(defaultFields)
\* returns is the space-joined list that starts from defaultFields, or
\* from the comma-split select parameter when there is one, followed by
\* each include field not already in the list, in order; it returns
\* whenever no whitelist restricts the fields, and select=title,name with
\* include=createdAt gives "title name createdAt".
C10_NoExclude ==
    (call.op = "select" /\ req.query.exclude = <<>>)
        => /\ ~call.out.threw
                => call.out.val =
                      join(C10_Followed(C10_Base(call.opts, req.query),
                                        C9_Named(req.query.include)), " ")
           /\ ~restricts(options.select) => ~call.out.threw
           /\ (/\ req.query.select = <<"title", ",", "name">>
               /\ req.query.include = <<"createdAt">>
               /\ ~call.out.threw)
                => call.out.val =
                      <<"title", " ", "name", " ", "createdAt">>

\* C10's case: the select parameter replaced other default fields and an
\* include parameter that names a field of the list and a new one added
\* only the new one
C10_Witness ==
    /\ call.op = "select"
    /\ call.opts = <<"secret">>
    /\ req.query.select = <<"title", ",", "name">>
    /\ req.query.include = <<"name", ",", "createdAt">>
    /\ req.query.exclude = <<>>
    /\ ~call.out.threw
    /\ call.out.val = <<"title", " ", "name", " ", "createdAt">>

\* the list select() holds when exclude processing starts
C11_Start ==
    C10_Followed(C10_Base(call.opts, req.query), C9_Named(req.query.include))

\* list without the first occurrence of field
C11_Without(list, field) ==
    LET at == CHOOSE i \in 1..Len(list) :
                 list[i] = field /\ \A j \in 1..(i - 1) : list[j] # field
    IN  SubSeq(list, 1, at - 1) \o SubSeq(list, at + 1, Len(list))

C11_In(list, field) == \E i \in 1..Len(list) : list[i] = field

\* exclude processing as a machine over (list, dash): a field of the list
\* is removed; a field not in the list is emitted with a dash when the
\* machine is in dash mode or the list is empty, which puts the machine in
\* dash mode, and is passed over otherwise
RECURSIVE C11_Machine(_, _, _)
C11_Machine(list, exc, dash) ==
    IF exc = <<>> THEN list
    ELSE IF C11_In(list, Head(exc))
         THEN C11_Machine(C11_Without(list, Head(exc)), Tail(exc), dash)
         ELSE IF dash \/ list = <<>>
              THEN C11_Machine(Append(list, <<"-">> \o Head(exc)),
                               Tail(exc), TRUE)
              ELSE C11_Machine(list, Tail(exc), dash)

\* the machine as documented: the first field not in the list puts it in
\* dash mode, so every field not in the list is emitted with a dash
RECURSIVE C11_FirstMiss(_, _)
C11_FirstMiss(list, exc) ==
    IF exc = <<>> THEN list
    ELSE IF C11_In(list, Head(exc))
         THEN C11_FirstMiss(C11_Without(list, Head(exc)), Tail(exc))
         ELSE C11_FirstMiss(Append(list, <<"-">> \o Head(exc)), Tail(exc))

\* C11: the projection select() returns for an exclude parameter is what a
\* two-state machine leaves: each excluded field found in the current list
\* is removed; an excluded field not found switches to dash mode only when
\* the current list is empty, and is passed over when it is not; in dash
\* mode every field not found is emitted as -field, and dash mode persists
\* to the end of exclude processing.
C11_ExcludeMachine ==
    (call.op = "select" /\ ~call.out.threw /\ req.query.exclude # <<>>)
        => call.out.val =
              join(C11_Machine(C11_Start, split(req.query.exclude, ","),
                               FALSE), " ")

\* C11 as it was stated: the first excluded field not found in the current
\* list switches to dash mode, whatever the list holds
C11_DashOnFirstMiss ==
    (call.op = "select" /\ ~call.out.threw /\ req.query.exclude # <<>>)
        => call.out.val =
              join(C11_FirstMiss(C11_Start, split(req.query.exclude, ",")),
                   " ")

\* C11's case: the only field of the list was removed, the next field, not
\* found in the empty list, switched to dash mode, and the field after it,
\* not found either, was emitted with a dash too
C11_Witness ==
    /\ call.op = "select"
    /\ call.opts = <<"secret">>
    /\ req.query.select = <<>>
    /\ req.query.include = <<>>
    /\ req.query.exclude = <<"secret", ",", "_id", ",", "secret">>
    /\ call.out.val = <<"-", "_id", " ", "-", "secret">>

\* C12: no field the exclude parameter names is a plain token of the
\* projection select() returns, whatever defaultFields, select and include
\* are.
C12_ExcludePrevails ==
    (call.op = "select" /\ ~call.out.threw)
        => \A i \in 1..Len(C9_Named(req.query.exclude)) :
              C9_Named(req.query.exclude)[i] \notin
                  C9_PlainTokens(call.out.val)

---------------------------------------------------------------------------
(* sort, limit, skip and find.                                             *)

\* the field a sort token names and the direction it gives it
C13_Name(token) ==
    IF token # <<>> /\ token[1] \in {"-", "+"} THEN Tail(token) ELSE token

C13_Direction(token) == IF token # <<>> /\ token[1] = "-" THEN -1 ELSE 1

\* the tokens sort() parses: those of the sort parameter, or of defaultSpec
\* when there is no parameter
C13_Tokens ==
    C9_Named(IF req.query.sort # <<>> THEN req.query.sort ELSE call.opts)

\* C13: sort(defaultSpec) parses the sort parameter, or defaultSpec when
\* there is none, into a mapping whose keys are the fields the tokens name,
\* sign stripped, each with -1 when its token (the last that names it)
\* begins with - and 1 when it begins with + or has no sign; with a sort
\* whitelist configured it throws ArgumentError and returns no mapping
\* exactly when some field, from the query or from defaultSpec, is not in
\* the whitelist; "-_id,+title" gives {_id: -1, title: 1}.
C13_SortMapping ==
    call.op = "sort"
        => LET toks == C13_Tokens
               outside == \E i \in 1..Len(toks) :
                             \A k \in 1..Len(options.sort.keys) :
                                options.sort.keys[k] # C13_Name(toks[i])
           IN  /\ call.out.threw = (options.sort.configured /\ outside)
               /\ call.out.threw
                    => /\ call.out.err.name = "ArgumentError"
                       /\ call.out.val = <<>>
               /\ ~call.out.threw
                    => /\ {call.out.val[k].key : k \in 1..Len(call.out.val)}
                             = {C13_Name(toks[i]) : i \in 1..Len(toks)}
                       /\ \A i \in 1..Len(toks) :
                             (\A j \in (i + 1)..Len(toks) :
                                 C13_Name(toks[j]) # C13_Name(toks[i]))
                                => C7_Has(call.out.val, C13_Name(toks[i]),
                                          C13_Direction(toks[i]))
               /\ (toks = <<<<"-", "_id">>, <<"+", "title">>>>
                      /\ ~call.out.threw)
                    => call.out.val = <<[key |-> <<"_id">>, v |-> -1],
                                        [key |-> <<"title">>, v |-> 1]>>

\* C13's case: with a whitelist that holds _id and title, the parameter
\* "-_id,+title" replaced a defaultSpec and gave {_id: -1, title: 1}
C13_Witness ==
    /\ call.op = "sort"
    /\ options.sort.configured
    /\ Len(options.sort.keys) > 0
    /\ call.opts = <<"-", "createdAt">>
    /\ req.query.sort = <<"-", "_id", ",", "+", "title">>
    /\ call.out.val = <<[key |-> <<"_id">>, v |-> -1],
                        [key |-> <<"title">>, v |-> 1]>>

\* the limit ceiling: the one the route gives, 100 when it gives none
C14_Ceiling == IF call.configured THEN options.limit ELSE 100

\* C14: limit(defaultLimit) takes as effective limit the limit parameter
\* when it is present and a number other than 0, and defaultLimit
\* otherwise; it throws RangeError exactly when the effective limit or
\* defaultLimit exceeds the ceiling (100 when none is configured), and
\* otherwise returns the effective limit, which is at most the ceiling;
\* default 20 with no parameter and no ceiling configured gives 20, and
\* limit=500 under a ceiling of 100 fails.
C14_Limit ==
    call.op = "limit"
        => LET param == req.query.limit
               effective == IF param.present /\ param.numeric /\ param.n # 0
                            THEN param.n ELSE call.opts
           IN  /\ call.out.threw =
                     (effective > C14_Ceiling \/ call.opts > C14_Ceiling)
               /\ call.out.threw => call.out.err.name = "RangeError"
               /\ ~call.out.threw
                    => call.out.val = effective /\ call.out.val <= C14_Ceiling
               /\ (~param.present /\ call.opts = 20 /\ ~call.configured)
                    => ~call.out.threw /\ call.out.val = 20
               /\ (param.present /\ param.numeric /\ param.n = 500
                      /\ ~call.configured)
                    => call.out.threw

\* C14 as it was stated: the limit parameter is the effective limit
\* whenever it is present
C14_LimitWhenPresent ==
    (call.op = "limit" /\ (req.query.limit.present => req.query.limit.numeric))
        => LET param == req.query.limit
               effective == IF param.present THEN param.n ELSE call.opts
           IN  /\ call.out.threw =
                     (effective > C14_Ceiling \/ call.opts > C14_Ceiling)
               /\ ~call.out.threw
                    => call.out.val = effective /\ call.out.val <= C14_Ceiling

\* C14's case: limit=0 is present and limit(20) returned 20
C14_Witness ==
    /\ call.op = "limit"
    /\ req.query.limit = NumParam(TRUE, 0)
    /\ call.opts = 20
    /\ ~call.out.threw
    /\ call.out.val = 20

\* the value of the skip parameter, 0 when it is absent or no number
C15_Value ==
    IF req.query.skip.present /\ req.query.skip.numeric
    THEN req.query.skip.n ELSE 0

\* C15: skip() returns the value of the skip parameter, 0 when it is
\* absent or no number, and throws RangeError exactly when the value
\* exceeds the skip ceiling, which is the one the route configures and 100
\* when it configures none.
C15_Skip ==
    call.op = "skip"
        => LET ceiling == IF call.configured THEN options.skip ELSE 100
           IN  /\ call.out.threw = (C15_Value > ceiling)
               /\ call.out.threw => call.out.err.name = "RangeError"
               /\ ~call.out.threw => call.out.val = C15_Value

\* C15 as it was stated: skip() fails exactly when a ceiling is configured
\* and exceeded, and never when the route configures none
C15_NoCeilingUnlessConfigured ==
    call.op = "skip"
        => /\ call.out.threw = (call.configured /\ C15_Value > options.skip)
           /\ ~call.configured => ~call.out.threw
           /\ ~call.out.threw => call.out.val = C15_Value

\* C15's case: the route configures no skip ceiling and skip=101 failed
C15_Witness ==
    /\ call.op = "skip"
    /\ ~call.configured
    /\ req.query.skip = NumParam(TRUE, 101)
    /\ call.out.threw
    /\ call.out.err.name = "RangeError"

\* the value of a well-formed find parameter, timestamps revived
C16_Revived(value) ==
    [value EXCEPT !.members =
        [i \in 1..Len(value.members) |->
            IF value.members[i].t = "string" /\ value.members[i].iso
            THEN [value.members[i] EXCEPT !.t = "date"]
            ELSE value.members[i]]]

\* C16: find() returns an empty filter when there is no find parameter,
\* and when the parameter parses to null; returns the parsed value, its
\* timestamps revived as dates, when the parameter is well-formed; and
\* when it is malformed throws the SyntaxError of JSON.parse to its caller.
C16_Find ==
    call.op = "find"
        => LET param == req.query.find
           IN  /\ call.out.threw = (param.present /\ ~param.wellFormed)
               /\ call.out.threw
                    => /\ call.out.err.name = "SyntaxError"
                       /\ invoked # <<>>
                       /\ invoked[1].fn = "handleError"
                       /\ invoked[1].arg.err = call.out.err
               /\ ~param.present => call.out.val = [kind |-> "object",
                                                    members |-> <<>>]
               /\ (param.present /\ param.wellFormed)
                    => call.out.val =
                          IF param.value.kind = "null"
                          THEN [kind |-> "object", members |-> <<>>]
                          ELSE C16_Revived(param.value)

\* C16 as it was stated: a well-formed parameter gives its parsed value and
\* a malformed one an error of kind ParseError
C16_ParseError ==
    call.op = "find"
        => LET param == req.query.find
           IN  /\ call.out.threw = (param.present /\ ~param.wellFormed)
               /\ call.out.threw => call.out.err.name = "ParseError"
               /\ ~param.present => call.out.val = [kind |-> "object",
                                                    members |-> <<>>]
               /\ (param.present /\ param.wellFormed)
                    => call.out.val = C16_Revived(param.value)

\* C16's case: a well-formed parameter with a timestamp came back with the
\* timestamp as a date
C16_Witness ==
    /\ call.op = "find"
    /\ req.query.find.present
    /\ req.query.find.wellFormed
    /\ ~call.out.threw
    /\ \E i \in 1..Len(call.out.val.members) :
          /\ call.out.val.members[i].t = "date"
          /\ req.query.find.value.members[i].t = "string"

---------------------------------------------------------------------------
(* The output pipeline.                                                    *)

\* the types the output format registry holds
C17_Registry == {<<"html">>, <<"json">>, <<"xlsx">>}

\* some token of the selector, wherever it stands, names a type that is not
\* in the registry: the type is what precedes the token's first ":"
C17_Unregistered(selector) ==
    LET items == split(selector, " ")
    IN  \E i \in 1..Len(items) : split(items[i], ":")[1] \notin C17_Registry

\* the token string handleOutput works with: its selector's, json when it
\* has none
C17_OutputSelector ==
    IF call.sel.str # <<>> THEN call.sel.str ELSE <<"json">>

\* the call threw NotSupportedError, invoked no renderer and wrote nothing
C17_Refused(c) ==
    /\ c.threw
    /\ c.err.name = "NotSupportedError"
    /\ ~c.wrote
    /\ ~c.header

\* C17: when some token of the selector, wherever it stands in the list,
\* names a type that is not in the registry, handleOutput's respond (run by
\* handleOutput's function for truthy data, or by the continuation of an
\* asynchronous selector) and handle404's function (for falsy data) throw
\* NotSupportedError, invoke no renderer and write no response.
C17_UnregisteredRefused ==
    \A i \in 1..Len(invoked) :
        /\ (/\ invoked[i].fn = "handleOutput"
            /\ ~invoked[i].falsy
            /\ call.sel.kind # "fn2"
            /\ C17_Unregistered(C17_OutputSelector))
              => C17_Refused(invoked[i])
        /\ (invoked[i].fn = "respond" /\ C17_Unregistered(C17_OutputSelector))
              => C17_Refused(invoked[i])
        /\ (/\ invoked[i].fn = "handle404"
            /\ invoked[i].falsy
            /\ call.sel2 # <<>>
            /\ C17_Unregistered(call.sel2))
              => C17_Refused(invoked[i])

\* C17's case: handle404, called with falsy data and a selector whose
\* second token is of no registered type, threw NotSupportedError and wrote
\* nothing
C17_Witness ==
    \E i \in 1..Len(invoked) :
        /\ invoked[i].fn = "handle404"
        /\ invoked[i].falsy
        /\ call.sel2 = <<"json", " ", "pdf">>
        /\ invoked[i].threw
        /\ invoked[i].err.name = "NotSupportedError"
        /\ ~invoked[i].wrote

\* C18: handleOutput's function, called with truthy data on a POST request,
\* sets the status to 201 before content negotiation, so that a renderer
\* that sets no status answers with 201; on any other request it sets no
\* status.
C18_CreatedOnPost ==
    \A i \in 1..Len(invoked) :
        (invoked[i].fn = "handleOutput" /\ ~invoked[i].falsy)
            => LET plain == /\ invoked[i].wrote
                            /\ invoked[i].sent \notin {302, 406}
               IN  IF req.method = "POST"
                   THEN /\ invoked[i].status \in {201, 406}
                        /\ plain => invoked[i].sent = 201
                   ELSE /\ invoked[i].status \in {0, 406}
                        /\ plain => invoked[i].sent = 200

\* C19: handleOutput's function, called with truthy data, hands the data
\* on whatever the write came to: with a literal or one-argument selector
\* it returns the data; with an asynchronous selector it returns a pending
\* promise, which is resolved with the data once the continuation has been
\* invoked with a token string.
C19_DataHandedOn ==
    /\ \A i \in 1..Len(invoked) :
          (invoked[i].fn = "handleOutput" /\ ~invoked[i].falsy)
              => IF call.sel.kind = "fn2"
                 THEN ~invoked[i].threw /\ invoked[i].ret.tag = "promise"
                 ELSE ~invoked[i].threw /\ invoked[i].ret = invoked[i].arg
    /\ (invoked # <<>> /\ invoked[Len(invoked)].fn = "respond")
          => /\ chain.settle = "fulfilled"
             /\ chain.value = invoked[Len(invoked)].arg

---------------------------------------------------------------------------
(* getBody's failures.                                                     *)

\* C20: when the route callback calls getBody() with exactly one uploaded
\* file whose type is not application/json, getBody throws a TypeError and
\* the error reaches handleError's function once: the throw the dispatcher
\* catches and the rejection of getBody's deferred make it run once
\* between them, and at most one error response is written.
C20_ClassifiedOnce ==
    (/\ call.op = "getBody"
     /\ req.files.shape = "array"
     /\ Len(req.files.items) = 1
     /\ req.files.items[1].mimetype # "application/json")
        => /\ call.out.threw
           /\ call.out.err.name = "TypeError"
           /\ Cardinality({i \in 1..Len(invoked) :
                              invoked[i].fn = "handleError"}) = 1
           /\ Len(res.writes) <= 1

\* C21: once getBody has started the read of the single uploaded JSON
\* file and the read callback has run, nothing was thrown out of the
\* callback and the promise getBody returned is settled: fulfilled when
\* the file was read and parsed, rejected when the file cannot be read or
\* its content is not valid JSON.
C21_FailuresRejected ==
    (/\ call.op = "getBody"
     /\ body.file.mimetype = "application/json"
     /\ body.read = "done")
        => /\ ~body.uncaught
           /\ body.deferred \in {"resolved", "rejected"}
           /\ (body.file.readable /\ body.file.valid)
                 <=> body.deferred = "resolved"

---------------------------------------------------------------------------
(* getFilter's alternatives and parameters.                                *)

C22_Untyped(item) == Len(item) = 1

C22_OtherTag(item) == Len(item) > 1 /\ item[1] \notin {"ObjectId", "Date"}

C22_Field(item) == IF Len(item) = 1 THEN item ELSE <<item[3]>>

\* the values the filter constrains field to be equal to: at the root, in
\* the root $or and in the groups of the root $and
C22_Values(filter, field) ==
    {filter[k].v.val : k \in {x \in 1..Len(filter) :
        filter[x].v.t = "eq" /\ filter[x].key = field}}
    \cup UNION {{filter[k].v.or[m].val : m \in {x \in 1..Len(filter[k].v.or) :
                    filter[k].v.or[x].field = field}} :
                 k \in {x \in 1..Len(filter) : filter[x].v.t = "or"}}
    \cup UNION {UNION {{filter[k].v.and[g][m].val :
                          m \in {x \in 1..Len(filter[k].v.and[g]) :
                                   filter[k].v.and[g][x].field = field}} :
                       g \in 1..Len(filter[k].v.and)} :
                 k \in {x \in 1..Len(filter) : filter[x].v.t = "and"}}

\* C22: in getFilter an alternative that carries a type tag other than
\* ObjectId or Date is dropped: the filter getFilter returns has no
\* constraint on its field, and a parameter that has only such
\* alternatives makes getFilter throw. An alternative that carries no type
\* tag is never dropped: getFilter never throws the TypeError that names
\* its parameter, and the filter it returns has an equality on the field
\* the alternative names, with the parameter's value unless a later
\* parameter whose one surviving alternative is that field has replaced it.
C22_UntypedKept ==
    call.op = "getFilter"
        => LET dsl == call.dsl
               params == req.params
               filter == call.out.val
           IN  \A i \in 1..Len(dsl) :
                  /\ (\A a \in 1..Len(dsl[i].alts) :
                          C22_OtherTag(dsl[i].alts[a])) => call.out.threw
                  /\ \A a \in 1..Len(dsl[i].alts) :
                        LET item == dsl[i].alts[a]
                        IN  /\ (C22_OtherTag(item) /\ ~call.out.threw)
                                  => C22_Values(filter, C22_Field(item)) = {}
                            /\ C22_Untyped(item)
                                  => ~(/\ call.out.threw
                                       /\ call.out.err.name = "TypeError"
                                       /\ call.out.err.arg = dsl[i].name)
                            /\ (C22_Untyped(item) /\ ~call.out.threw)
                                  => \/ params[i] \in C22_Values(filter, item)
                                     \/ \E j \in (i + 1)..Len(dsl) :
                                           /\ C7_Fields(dsl[j].alts, params[j])
                                                 = <<item>>
                                           /\ params[j]
                                                 \in C22_Values(filter, item)

\* C22 as stated: neither an alternative without a type tag nor one with
\* another tag than ObjectId or Date contributes an equality constraint to
\* the filter getFilter returns.
C22_UntypedDropped ==
    (call.op = "getFilter" /\ ~call.out.threw)
        => \A i \in 1..Len(call.dsl) :
              \A a \in 1..Len(call.dsl[i].alts) :
                 LET item == call.dsl[i].alts[a]
                 IN  (C22_Untyped(item) \/ C22_OtherTag(item))
                        => C22_Values(call.out.val, C22_Field(item)) = {}

\* C22's case: of Number(count),slug the tagged alternative was dropped
\* and the untyped one kept, for a value that is no ObjectId and no date
C22_Witness ==
    /\ call.op = "getFilter"
    /\ Len(call.dsl) = 1
    /\ call.dsl[1].alts = <<TypedNum, Slug>>
    /\ ~isObjectId(req.params[1])
    /\ ~isDate(req.params[1])
    /\ ~call.out.threw
    /\ call.out.val = <<[key |-> Slug, v |-> EqProp(req.params[1])]>>

\* C23: whenever getFilter returns, every logical parameter of the DSL
\* constrains the result: the filter holds, for one of the parameter's
\* alternatives, an equality of its field with the parameter's value, at
\* the root, in the root $or or in a group of the root $and.
C23_EveryParameterConstrains ==
    (call.op = "getFilter" /\ ~call.out.threw)
        => \A i \in 1..Len(call.dsl) :
              \E a \in 1..Len(call.dsl[i].alts) :
                 req.params[i] \in
                    C22_Values(call.out.val, C22_Field(call.dsl[i].alts[a]))

---------------------------------------------------------------------------
(* The modes of select's projection.                                       *)

\* the tokens of a space-separated projection string that are not empty
C24_Tokens(projection) ==
    LET toks == IF projection = <<>> THEN <<>> ELSE split(projection, " ")
    IN  {toks[i] : i \in {j \in 1..Len(toks) : toks[j] # <<>>}}

\* some token of a string, split at its commas and spaces, begins with a
\* dash
C24_Dashed(param) ==
    \E i \in 1..Len(C9_Named(param)) :
        \E tok \in C24_Tokens(C9_Named(param)[i]) : tok[1] = "-"

\* C24: when no token of defaultFields, select or include begins with a
\* dash, the tokens of the projection select() returns are all plain field
\* names or all dash-prefixed, whatever the exclude parameter is.
C24_NeverMixesModes ==
    (/\ call.op = "select"
     /\ ~call.out.threw
     /\ ~C24_Dashed(call.opts)
     /\ ~C24_Dashed(req.query.select)
     /\ ~C24_Dashed(req.query.include))
        => \/ \A tok \in C24_Tokens(call.out.val) : tok[1] # "-"
           \/ \A tok \in C24_Tokens(call.out.val) : tok[1] = "-"

===========================================================================
